---- MODULE Spec2Model ----
(***************************************************************************)
(* Model of the web-dashboard real-time core of smart_city_traffic_overview *)
(*                                                                         *)
(*   - TriageInterface (components/layout/README.md holds its source) and   *)
(*     the api object of contexts/WebSocketContext.tsx;                     *)
(*   - WebSocketProvider (subscribe / broadcast) of                         *)
(*     contexts/WebSocketContext.tsx.                                       *)
(*                                                                         *)
(* The scheduler is the browser's single-threaded event loop: every        *)
(* handler (key event, timer callback, promise settlement, interval tick)  *)
(* runs to completion, so each is one action.  React re-renders between    *)
(* two events, so a handler reads the state left by the previous one.      *)
(***************************************************************************)
EXTENDS Integers, Sequences, FiniteSets, TLC

VARIABLES
    \* ---- TriageInterface -------------------------------------------------
    qData,          \* useQuery: data (the task), undefined before a first result
    qStatus,        \* useQuery: status  "pending" | "success" | "error"
    qFetching,      \* useQuery: fetchStatus = "fetching"
    mStatus,        \* useMutation: status "idle" | "pending" | "success" | "error"
    mCurrent,       \* useMutation: the submission call the observer follows (0: none)
    feedback,       \* useState feedback: "correct" | "incorrect" | "null"
    validatedCount, \* useState validatedCount
    timers,         \* pending setTimeout callbacks of handleValidation, oldest first
    calls,          \* every api.submitValidation call issued so far, in order
    inflight,       \* the submission calls whose POST has not settled
    decided,        \* the decide inputs that passed handleValidation's guard, in order
    fetchIssued,    \* the last step started a call of api.fetchNextImage
    lastOp,         \* the handler that ran last
    settled,        \* the response of the POST that settled in the last step
    triageMounted,  \* TriageInterface is mounted
    \* ---- WebSocketProvider -----------------------------------------------
    subscribers,    \* subscribersRef: topic -> Set of callbacks (insertion order)
    handles,        \* the disposers subscribe has returned so far, in order
    unsubscribed,   \* (topic, callback) pairs disposed and not subscribed since
    published,      \* the event the last step broadcast, if any
    delivered,      \* the callback invocations of the last step, in order
    useMock,        \* USE_MOCK: the ingress is the mock generator, not the WebSocket
    muxOp,          \* the provider operation the last step ran
    script,         \* the disposer call a callback made during the last broadcast
    \* VideoPlayer (src/unnamed/part_009)
    variant,        \* which VideoPlayer is mounted and which strategy it selected
    mounted,        \* the component is mounted (not yet disposed)
    isPlaying,      \* useState(false)
    vpIsLoading,    \* isLoading, useState(true)
    vpError,        \* error, useState(false)
    retryCount,     \* useState(0)
    reconnectTimeoutRef,  \* the timer id held by the ref, 0 for null
    pending,        \* the timers set and neither fired nor cleared, oldest first
    instance,       \* the state of the ReactPlayer instance / Hls object
    playerOp,       \* the handler the last step ran
    scheduled,      \* the delay of the timer the last step set, 0 if it set none
    failures,       \* timers set since the last success or manual retry
    reinit,         \* the last step re-created the player instance
    reported,       \* the last status passed to onStatusChange
    \* ---- the grid of StreamCards -----------------------------------------
    focus,          \* the card whose VideoPlayer the variables above describe
    others,         \* the state of the VideoPlayer of every other card
    \* ---- ConnectedOverlay / VideoOverlay ---------------------------------
    dims,           \* useState({ w: 0, h: 0 }) of ConnectedOverlay
    detections,     \* the detections prop derived from lastEvent
    isAnomaly,      \* the isAnomaly prop of VideoOverlay
    canvasOps,      \* the canvas calls of the last run of the draw effect
    painted,        \* the rectangles on the bitmap of the canvas
    erased,         \* how many rectangles the last step took off the bitmap
    overlayOp,      \* what made the overlay render last
    \* ---- api, called on its own ------------------------------------------
    apiCall,        \* the last call of an api function and what the server answered
    apiResult,      \* what that call returned or threw
    \* ---- useWebSocket consumers ------------------------------------------
    consumers,      \* per consumer: mounted, the cameraId prop, the disposer kept
    nextCb,         \* the identity of the next callback closure
    consumerOp,     \* what the consumers did last
    \* ---- MissionControlPage ----------------------------------------------
    pageLastEvent,  \* lastEvent of the page's useWebSocket()
    pageDirty,      \* a state update of lastEvent waits for its render
    events,         \* useState<DetectionEvent[]>([]): the event log
    camSeq,         \* how many camera events were published
    overwritten,    \* how many updates of lastEvent were replaced before a render
    pageOp,         \* what the page did last
    \* ---- HealthDashboard -------------------------------------------------
    healthLastEvent, \* lastEvent of the dashboard's useWebSocket()
    healthDirty,    \* a state update of lastEvent waits for its render
    metrics,        \* useState<SystemMetrics>
    seen,           \* per metric type, the last system event the effect ran with
    healthOp        \* what the dashboard did last

triageVars == <<qData, qStatus, qFetching, mStatus, mCurrent, feedback,
                validatedCount, timers, calls, inflight, decided,
                fetchIssued, lastOp, settled, triageMounted>>
muxVars == <<subscribers, handles, unsubscribed, published, delivered,
             useMock, muxOp, script>>
playerVars == <<variant, mounted, isPlaying, vpIsLoading, vpError, retryCount,
                reconnectTimeoutRef, pending, instance, playerOp, scheduled,
                failures, reinit, reported>>
gridVars == <<focus, others>>
overlayVars == <<dims, detections, isAnomaly, canvasOps, painted, erased,
                 overlayOp>>

apiVars == <<apiCall, apiResult>>
consumerVars == <<consumers, nextCb, consumerOp>>
pageVars == <<pageLastEvent, pageDirty, events, camSeq, overwritten, pageOp>>
healthVars == <<healthLastEvent, healthDirty, metrics, seen, healthOp>>

\* What the handlers of one component leave alone.
notTriage == <<muxVars, playerVars, gridVars, overlayVars, apiVars,
               consumerVars, pageVars, healthVars>>
notMux == <<triageVars, playerVars, gridVars, overlayVars, apiVars,
            consumerVars, pageVars, healthVars>>
notPlayer == <<triageVars, muxVars, gridVars, overlayVars, apiVars,
               consumerVars, pageVars, healthVars>>
notGrid == <<triageVars, muxVars, overlayVars, apiVars, consumerVars,
             pageVars, healthVars>>
notOverlay == <<triageVars, muxVars, playerVars, gridVars, apiVars,
                consumerVars, pageVars, healthVars>>
notApi == <<triageVars, muxVars, playerVars, gridVars, overlayVars,
            consumerVars, pageVars, healthVars>>
notConsumer == <<triageVars, playerVars, gridVars, overlayVars, apiVars,
                 pageVars, healthVars>>
notPage == <<triageVars, muxVars, playerVars, gridVars, overlayVars, apiVars,
             consumerVars, healthVars>>
notHealth == <<triageVars, muxVars, playerVars, gridVars, overlayVars, apiVars,
               consumerVars, pageVars>>

vars == <<qData, qStatus, qFetching, mStatus, mCurrent, feedback,
          validatedCount, timers, calls, inflight, decided,
          fetchIssued, lastOp, settled, triageMounted, subscribers, handles, unsubscribed, published,
          delivered, useMock, muxOp, script, variant, mounted, isPlaying,
          vpIsLoading, vpError, retryCount, reconnectTimeoutRef, pending, instance,
          playerOp, scheduled, failures, reinit, reported, focus, others, dims, detections, isAnomaly,
          canvasOps, painted, erased, overlayOp, apiCall, apiResult, consumers,
          nextCb, consumerOp, pageLastEvent, pageDirty, events, camSeq,
          overwritten, pageOp, healthLastEvent, healthDirty, metrics, seen,
          healthOp>>

----------------------------------------------------------------------------
(* Bounds of the model                                                      *)

\* decide inputs accepted by handleValidation in one run
MaxDecisions == 2
\* items in one queue response
MaxQueueLen == 2
\* milliseconds that pass in one Tick
TickMs == 100
\* calls of subscribe in one run
MaxHandles == 2
\* reconnect timers pending at one time
MaxPending == 2
\* reconnect timers set between two successes or manual retries
MaxFailures == 6
\* detections in one event
MaxDetections == 2
\* failures in a row, and timers pending, of one card's player in the grid
MaxGridFailures == 1
\* useWebSocket consumers, and runs of their subscribe effect
MaxConsumers == 2
MaxEffects == 4
\* camera events published to the page, and updates of its lastEvent that
\* are replaced before the page renders
MaxCamEvents == 52
MaxOverwritten == 1

----------------------------------------------------------------------------
(* Values                                                                   *)

Undefined == [kind |-> "undefined"]
NullTask == [kind |-> "null"]
NullLabel == "null"

\* BackendTriageItem, the fields fetchNextImage reads
Item(id, path, label) == [id |-> id, image_path |-> path, current_label |-> label]

Items == { Item("task_123", "123.jpg", "car"),
           Item("task_124", "124.jpg", NullLabel) }

RECURSIVE SeqsUpTo(_, _)
SeqsUpTo(S, n) ==
    IF n = 0 THEN { <<>> }
    ELSE LET shorter == SeqsUpTo(S, n - 1)
         IN  shorter \cup { Append(s, x) : s \in { t \in shorter : Len(t) = n - 1 }, x \in S }

\* What GET /api/triage/queue can answer: the request rejects, a non-OK
\* status, or an OK status with the list of pending items.
QueueResponses ==
    { [rejected |-> TRUE, ok |-> FALSE, queue |-> <<>>],
      [rejected |-> FALSE, ok |-> FALSE, queue |-> <<>>] }
    \cup { [rejected |-> FALSE, ok |-> TRUE, queue |-> q] : q \in SeqsUpTo(Items, MaxQueueLen) }

\* What POST /api/triage/{id}/validate can answer.
SubmitResponses == { "ok", "http_error", "network_error" }

Keys == { "ArrowRight", "y", "Y", "ArrowLeft", "n", "N", "ArrowDown", " ", "Escape" }

----------------------------------------------------------------------------
(* api (contexts/WebSocketContext.tsx)                                      *)

\* Mutant: the task is made of the last item of the list.
fetchNextImageLastItem(res) ==
    IF res.rejected \/ ~res.ok
    THEN [threw |-> TRUE, value |-> Undefined]
    ELSE IF Len(res.queue) = 0
    THEN [threw |-> FALSE, value |-> NullTask]
    ELSE LET item == res.queue[Len(res.queue)]
         IN  [threw |-> FALSE,
              value |-> [kind |-> "task",
                         id |-> item.id,
                         imageUrl |-> item.image_path,
                         currentLabel |-> IF item.current_label \in {NullLabel, ""}
                                          THEN "unknown"
                                          ELSE item.current_label]]

\* api.fetchNextImage: the promise rejects on a rejected request or a non-OK
\* status, resolves to null on an empty list, else to the task made of the
\* FIRST item.  (confidence and bbox are filled with Math.random values that
\* no handler reads; they are left out of the task record.)
fetchNextImage(res) ==
    IF res.rejected \/ ~res.ok
    THEN [threw |-> TRUE, value |-> Undefined]
    ELSE IF Len(res.queue) = 0
    THEN [threw |-> FALSE, value |-> NullTask]
    ELSE LET item == res.queue[1]
         IN  [threw |-> FALSE,
              value |-> [kind |-> "task",
                         id |-> item.id,
                         imageUrl |-> item.image_path,
                         currentLabel |-> IF item.current_label \in {NullLabel, ""}
                                          THEN "unknown"
                                          ELSE item.current_label]]

\* api.submitValidation: POSTs the body and awaits fetch only; fetch rejects
\* on a network failure and resolves on every HTTP status.
submitValidation(id, verified, currentLabel, res) ==
    [url |-> id,
     body |-> [verified |-> verified,
               correct_label |-> IF verified THEN currentLabel ELSE "rejected_class"],
     threw |-> (res = "network_error")]

----------------------------------------------------------------------------
(* TriageInterface (components/layout/README.md)                            *)

\* setTimeout(..., 200) in handleValidation
ConfirmDelay == 200

\* Mutant: the mutation is configured to retry a failed call once.
MutationRetryOnce == 0 + 1

\* useMutation is given no retry option: the library's default for mutations
MutationRetry == 0

NoFeedback == "null"

\* const { data: task, isLoading, isError } = useQuery(...)
task == qData
isLoading == qFetching /\ qStatus = "pending"
isError == qStatus = "error"
isPending == mStatus = "pending"
hasTask == task.kind = "task"

\* The three render branches of the component.
Render(loading, error, t, fb) ==
    IF loading
    THEN [screen |-> "Fetching task...", retryButton |-> FALSE, overlay |-> NoFeedback]
    ELSE IF error \/ t.kind # "task"
    THEN [screen |-> "Failed to load task or queue empty.", retryButton |-> TRUE,
          overlay |-> NoFeedback]
    ELSE [screen |-> "TRIAGE STATION", retryButton |-> FALSE, overlay |-> fb]

View == Render(isLoading, isError, task, feedback)

\* A fetch of the query starts (mount, refetch(), invalidateQueries on the
\* mounted query; a fetch already running is cancelled and replaced).  The
\* status goes back to pending only while the query never had data.
StartFetch ==
    /\ qFetching' = TRUE
    /\ qStatus' = IF qData = Undefined THEN "pending" ELSE qStatus
    /\ qData' = qData
    /\ fetchIssued' = TRUE

NoFetch ==
    /\ UNCHANGED <<qData, qStatus, qFetching>>
    /\ fetchIssued' = FALSE

\* Mutant: the callback passes a constant flag instead of the decision.
MutateArgsAlwaysVerified(t, verified) ==
    [id |-> t.id, verified |-> TRUE, currentLabel |-> t.currentLabel]

\* The arguments handleValidation's timer callback passes to mutation.mutate
MutateArgs(t, verified) ==
    [id |-> t.id, verified |-> verified, currentLabel |-> t.currentLabel]

\* handleValidation(verified)
handleValidation(verified) ==
    IF ~hasTask \/ isPending
    THEN /\ UNCHANGED <<feedback, timers, decided>>
    ELSE /\ Len(decided) < MaxDecisions
         /\ feedback' = IF verified THEN "correct" ELSE "incorrect"
         /\ timers' = Append(timers, [args |-> MutateArgs(task, verified),
                                      delay |-> ConfirmDelay,
                                      elapsed |-> 0])
         /\ decided' = Append(decided, [task |-> task, verified |-> verified])

\* Mutant: skip is wired to the reject path before fetching the next task.
handleSkipAsReject ==
    /\ hasTask /\ ~isPending
    /\ handleValidation(FALSE)
    /\ StartFetch

\* handleSkip()
handleSkip ==
    /\ IF isPending
       THEN NoFetch
       ELSE StartFetch
    /\ UNCHANGED <<feedback, timers, decided>>

\* handleKeyDown's switch
KeyBinding(key) ==
    IF key \in {"ArrowRight", "y", "Y"} THEN "validate"
    ELSE IF key \in {"ArrowLeft", "n", "N"} THEN "reject"
    ELSE IF key \in {"ArrowDown", " "} THEN "skip"
    ELSE "none"

KeyDown(key) ==
    /\ triageMounted
    /\ CASE KeyBinding(key) = "validate" ->
              /\ handleValidation(TRUE)
              /\ NoFetch
              /\ lastOp' = "validate"
         [] KeyBinding(key) = "reject" ->
              /\ handleValidation(FALSE)
              /\ NoFetch
              /\ lastOp' = "reject"
         [] KeyBinding(key) = "skip" ->
              /\ handleSkip
              /\ lastOp' = "skip"
         [] OTHER ->
              /\ NoFetch
              /\ UNCHANGED <<feedback, timers, decided>>
              /\ lastOp' = "key"
    /\ settled' = "none"
    /\ UNCHANGED <<mStatus, mCurrent, validatedCount, calls, inflight, triageMounted>>
    /\ UNCHANGED notTriage

\* onClick of the Retry button: refetch()
ClickRetry ==
    /\ triageMounted
    /\ View.retryButton
    /\ StartFetch
    /\ lastOp' = "retry"
    /\ settled' = "none"
    /\ UNCHANGED <<mStatus, mCurrent, feedback, validatedCount, timers, calls,
                   inflight, decided, triageMounted>>
    /\ UNCHANGED notTriage

Min(a, b) == IF a < b THEN a ELSE b

\* Time passes.
Tick ==
    /\ \E i \in DOMAIN timers : timers[i].elapsed < timers[i].delay
    /\ timers' = [i \in DOMAIN timers |->
                    [timers[i] EXCEPT !.elapsed = Min(timers[i].delay, @ + TickMs)]]
    /\ NoFetch
    /\ lastOp' = "tick"
    /\ settled' = "none"
    /\ UNCHANGED <<mStatus, mCurrent, feedback, validatedCount, calls, inflight,
                   decided, triageMounted>>
    /\ UNCHANGED notTriage

\* One call of api.submitValidation, as recorded in calls.
Call(args, waited) ==
    [id |-> args.id, verified |-> args.verified, currentLabel |-> args.currentLabel,
     waited |-> waited]

\* The timer callback of handleValidation: mutation.mutate(args) builds a new
\* mutation, which the observer follows from now on, and calls mutationFn.
ConfirmTimerFire ==
    /\ timers # <<>>
    /\ Head(timers).elapsed >= Head(timers).delay
    /\ calls' = Append(calls, Call(Head(timers).args, Head(timers).elapsed))
    /\ inflight' = inflight \cup {[call |-> Len(calls) + 1, failureCount |-> 0]}
    /\ mCurrent' = Len(calls) + 1
    /\ mStatus' = "pending"
    /\ timers' = Tail(timers)
    /\ NoFetch
    /\ lastOp' = "timer"
    /\ settled' = "none"
    /\ UNCHANGED <<feedback, validatedCount, decided, triageMounted>>
    /\ UNCHANGED notTriage

\* The POST of one submission call settles.
SubmitSettle(m, res) ==
    LET c == calls[m.call]
        r == submitValidation(c.id, c.verified, c.currentLabel, res)
    IN  /\ IF r.threw
           THEN IF m.failureCount < MutationRetry
                THEN \* the library calls mutationFn again
                     /\ calls' = Append(calls, c)
                     /\ inflight' = (inflight \ {m})
                            \cup {[call |-> Len(calls) + 1,
                                   failureCount |-> m.failureCount + 1]}
                     /\ mCurrent' = IF mCurrent = m.call THEN Len(calls) + 1 ELSE mCurrent
                     /\ UNCHANGED <<mStatus, feedback, validatedCount>>
                     /\ NoFetch
                ELSE \* no onError is given
                     /\ inflight' = inflight \ {m}
                     /\ mStatus' = IF mCurrent = m.call THEN "error" ELSE mStatus
                     /\ UNCHANGED <<mCurrent, calls, feedback, validatedCount>>
                     /\ NoFetch
           ELSE \* onSuccess; on an unmounted component the state setters do
                \* nothing and the query has no observer left to refetch for
                /\ inflight' = inflight \ {m}
                /\ mStatus' = IF mCurrent = m.call THEN "success" ELSE mStatus
                /\ IF triageMounted
                   THEN /\ validatedCount' = validatedCount + 1
                        /\ StartFetch
                        /\ feedback' = NoFeedback
                   ELSE /\ NoFetch
                        /\ UNCHANGED <<validatedCount, feedback>>
                /\ UNCHANGED <<mCurrent, calls>>
        /\ lastOp' = "submit_settled"
        /\ settled' = res
        /\ UNCHANGED <<timers, decided, triageMounted>>
        /\ UNCHANGED notTriage

\* What queryFn can settle with: fetchNextImage of each answer of the queue
\* endpoint.
QueueResults == { fetchNextImage(res) : res \in QueueResponses }

\* The running fetch of the query settles with the result r of fetchNextImage.
FetchSettle(r) ==
    /\ triageMounted
    /\ qFetching
    /\ qFetching' = FALSE
    /\ qStatus' = IF r.threw THEN "error" ELSE "success"
    /\ qData' = IF r.threw THEN qData ELSE r.value
    /\ fetchIssued' = FALSE
    /\ lastOp' = "fetch_settled"
    /\ settled' = "none"
    /\ UNCHANGED <<mStatus, mCurrent, feedback, validatedCount, timers, calls,
                   inflight, decided, triageMounted>>
    /\ UNCHANGED notTriage

\* The operator leaves the triage page: the component unmounts.  Its only
\* effect cleanup removes the keydown listener; the timers of handleValidation
\* are not cleared.
TriageUnmount ==
    /\ triageMounted
    /\ triageMounted' = FALSE
    /\ NoFetch
    /\ lastOp' = "unmount"
    /\ settled' = "none"
    /\ UNCHANGED <<mStatus, mCurrent, feedback, validatedCount, timers, calls,
                   inflight, decided>>
    /\ UNCHANGED notTriage

\* The component has mounted: the query's first fetch is running.
TriageInit ==
    /\ qData = Undefined
    /\ qStatus = "pending"
    /\ qFetching = TRUE
    /\ mStatus = "idle"
    /\ mCurrent = 0
    /\ feedback = NoFeedback
    /\ validatedCount = 0
    /\ timers = <<>>
    /\ calls = <<>>
    /\ inflight = {}
    /\ decided = <<>>
    /\ fetchIssued = TRUE
    /\ lastOp = "mount"
    /\ settled = "none"
    /\ triageMounted = TRUE

TriageNext ==
    \/ \E key \in Keys : KeyDown(key)
    \/ ClickRetry
    \/ Tick
    \/ ConfirmTimerFire
    \/ \E m \in inflight, res \in SubmitResponses : SubmitSettle(m, res)
    \/ \E r \in QueueResults : FetchSettle(r)
    \/ TriageUnmount

----------------------------------------------------------------------------
(* WebSocketProvider (contexts/WebSocketContext.tsx)                        *)

\* The key null of subscribersRef: "all cameras"
Wildcard == "<null>"
CameraIds == { "cam_01", "cam_03" }
Topics == { Wildcard } \cup CameraIds
Callbacks == { "cbA", "cbB" }

NoEvent == [eventType |-> "none"]

\* AppEvent = DetectionEvent | SystemMetricEvent, the fields broadcast reads
\* and the ones that tell two events apart.
CameraEvents ==
    { [eventType |-> ty, cameraId |-> cam] :
         ty \in {"detection", "anomaly", "alert"}, cam \in CameraIds }
SystemEvents ==
    { [eventType |-> "system", metricType |-> m] :
         m \in {"cpu_usage", "memory_usage", "kafka_lag"} }

\* Reading a property of a parsed JSON value: undefined when it is absent.
JsUndefined == "undefined"
JsProp(value, field) ==
    IF field \in DOMAIN value THEN value[field] ELSE JsUndefined

\* JSON.parse results that match neither event schema: null (reading a
\* property of it throws), an object without eventType, a system event
\* without its metric fields.
JsonNull == [json |-> "null"]
MalformedJson ==
    { JsonNull,
      [cameraId |-> "cam_01"],
      [eventType |-> "system"] }

WellFormedEvents == CameraEvents \cup SystemEvents

\* msg.data of a WebSocket message: text JSON.parse rejects, or text it
\* parses into a value.
Messages ==
    { [parses |-> FALSE, data |-> JsonNull] }
    \cup { [parses |-> TRUE, data |-> d] :
               d \in { [eventType |-> "detection", cameraId |-> "cam_01"],
                       [eventType |-> "system", metricType |-> "cpu_usage"] }
                     \cup MalformedJson }

\* No callback calls subscribe or a disposer during the broadcast.
NoScript == [cb |-> "none", h |-> 0, sub |-> FALSE, topic |-> "none", target |-> "none"]

\* A JavaScript Set as the sequence of its members in insertion order.
SetAdd(set, x) ==
    IF \E i \in DOMAIN set : set[i] = x THEN set ELSE Append(set, x)

SetDelete(set, x) == SelectSeq(set, LAMBDA y : y # x)

\* Map.prototype.get / set / delete on subscribersRef.current
MapHas(map, key) == key \in DOMAIN map
MapSet(map, key, value) ==
    [k \in DOMAIN map \cup {key} |-> IF k = key THEN value ELSE map[k]]
MapDelete(map, key) == [k \in DOMAIN map \ {key} |-> map[k]]

\* Mutant: the disposer only drops the topic when its set is already empty.
unsubscribeNoDelete(map, cameraId, callback) ==
    IF ~MapHas(map, cameraId)
    THEN map
    ELSE IF Len(map[cameraId]) = 0
         THEN MapDelete(map, cameraId)
         ELSE map

\* Mutant: the disposer removes the callback and keeps the topic key.
unsubscribeKeepKey(map, cameraId, callback) ==
    IF ~MapHas(map, cameraId)
    THEN map
    ELSE MapSet(map, cameraId, SetDelete(map[cameraId], callback))

\* The unsubscribe function returned by subscribe(cameraId, callback)
unsubscribe(map, cameraId, callback) ==
    IF ~MapHas(map, cameraId)
    THEN map
    ELSE LET subs == SetDelete(map[cameraId], callback)
         IN  IF Len(subs) = 0
             THEN MapDelete(map, cameraId)
             ELSE MapSet(map, cameraId, subs)

\* subscribe(cameraId, callback): the registry after registration
subscribe(map, cameraId, callback) ==
    LET withKey == IF ~MapHas(map, cameraId) THEN MapSet(map, cameraId, <<>>) ELSE map
    IN  MapSet(withKey, cameraId, SetAdd(withKey[cameraId], callback))

\* cb(event): what invoking a callback does to the registry.  useWebSocket's
\* callback (setLastEvent) leaves it alone; a consumer's callback may call a
\* disposer it holds or subscribe a callback, which is what sc describes.
Invoke(map, cb, sc) ==
    IF sc.h # 0 /\ sc.cb = cb
    THEN unsubscribe(map, sc.topic, sc.target)
    ELSE IF sc.sub /\ sc.cb = cb
    THEN subscribe(map, sc.topic, sc.target)
    ELSE map

Members(set) == { set[i] : i \in DOMAIN set }

\* subs?.forEach((cb) => cb(event)) over the live Set under key: members are
\* visited in insertion order, a member deleted before its turn is not
\* visited, and a member added before the iteration ends is visited.  rest
\* holds the members still to visit.
RECURSIVE forEach(_, _, _, _, _)
forEach(map, key, rest, sc, log) ==
    IF rest = <<>>
    THEN [map |-> map, log |-> log]
    ELSE LET cb == Head(rest)
             after == Invoke(map, cb, sc)
             left == IF MapHas(after, key)
                     THEN SelectSeq(Tail(rest), LAMBDA x : x \in Members(after[key]))
                          \o SelectSeq(after[key], LAMBDA x : x \notin Members(map[key]))
                     ELSE <<>>
         IN  forEach(after, key, left, sc, Append(log, [cb |-> cb, topic |-> key]))

\* subscribersRef.current.get(key)?.forEach(...)
Notify(map, key, sc, log) ==
    IF MapHas(map, key)
    THEN forEach(map, key, map[key], sc, log)
    ELSE [map |-> map, log |-> log]

\* Mutant: the wildcard subscribers are notified inside the camera-event branch.
broadcastWildcardInBranch(map, event, sc) ==
    IF event # JsonNull /\ JsProp(event, "eventType") # "system"
    THEN LET wild == Notify(map, Wildcard, sc, <<>>)
             cam == Notify(wild.map, JsProp(event, "cameraId"), sc, wild.log)
         IN  [map |-> cam.map, log |-> cam.log, threw |-> FALSE]
    ELSE [map |-> map, log |-> <<>>, threw |-> (event = JsonNull)]

\* Mutant: the event is handed to the subscribers of every camera.
RECURSIVE NotifyAll(_, _, _, _)
NotifyAll(map, keys, sc, log) ==
    IF keys = {}
    THEN [map |-> map, log |-> log]
    ELSE LET key == CHOOSE k \in keys : TRUE
             r == Notify(map, key, sc, log)
         IN  NotifyAll(r.map, keys \ {key}, sc, r.log)

broadcastToEveryCamera(map, event, sc) ==
    LET wild == Notify(map, Wildcard, sc, <<>>)
        cams == NotifyAll(wild.map, CameraIds, sc, wild.log)
    IN  [map |-> cams.map, log |-> cams.log, threw |-> (event = JsonNull)]

\* broadcast(event): the callback invocations it makes, in order, the
\* registry it leaves, and whether it threw (event.eventType of null).
broadcast(map, event, sc) ==
    LET wild == Notify(map, Wildcard, sc, <<>>)
    IN  IF event = JsonNull
        THEN [map |-> wild.map, log |-> wild.log, threw |-> TRUE]
        ELSE IF JsProp(event, "eventType") # "system"
        THEN LET cam == Notify(wild.map, JsProp(event, "cameraId"), sc, wild.log)
             IN  [map |-> cam.map, log |-> cam.log, threw |-> FALSE]
        ELSE [map |-> wild.map, log |-> wild.log, threw |-> FALSE]

\* A consumer calls context.subscribe and keeps the disposer.
Subscribe(cameraId, callback) ==
    /\ Len(handles) < MaxHandles
    /\ subscribers' = subscribe(subscribers, cameraId, callback)
    /\ handles' = Append(handles, [topic |-> cameraId, cb |-> callback, called |-> FALSE])
    /\ unsubscribed' = unsubscribed \ {<<cameraId, callback>>}
    /\ published' = NoEvent
    /\ delivered' = <<>>
    /\ muxOp' = [op |-> "subscribe", h |-> Len(handles) + 1]
    /\ script' = NoScript
    /\ UNCHANGED useMock
    /\ UNCHANGED notMux

\* A consumer calls a disposer it holds (for the first time or again).
Unsubscribe(h) ==
    /\ subscribers' = unsubscribe(subscribers, handles[h].topic, handles[h].cb)
    /\ handles' = [handles EXCEPT ![h].called = TRUE]
    /\ unsubscribed' = unsubscribed \cup {<<handles[h].topic, handles[h].cb>>}
    /\ published' = NoEvent
    /\ delivered' = <<>>
    /\ muxOp' = [op |-> "unsubscribe", h |-> h]
    /\ script' = NoScript
    /\ UNCHANGED useMock
    /\ UNCHANGED notMux

\* The callbacks a broadcast can reach: those registered under some topic.
Runners ==
    { c \in Callbacks : \E t \in DOMAIN subscribers : c \in Members(subscribers[t]) }

\* What the callbacks of the consumers may do during one broadcast: nothing,
\* or one of them calls a disposer the consumers hold, or one of them
\* subscribes another callback.
Scripts ==
    { NoScript }
    \cup { [cb |-> c, h |-> h, sub |-> FALSE,
            topic |-> handles[h].topic, target |-> handles[h].cb] :
             c \in Runners, h \in DOMAIN handles }
    \cup IF Len(handles) < MaxHandles
         THEN { [cb |-> c, h |-> 0, sub |-> TRUE, topic |-> t, target |-> c2] :
                  c \in Runners, t \in Topics, c2 \in Callbacks \ Runners }
         ELSE {}

\* A call of broadcast(event) from an ingress handler, and what it leaves.
Publish(event, sc) ==
    LET r == broadcast(subscribers, event, sc)
        ran == sc # NoScript /\ \E i \in DOMAIN r.log : r.log[i].cb = sc.cb
    IN  /\ published' = event
        /\ delivered' = r.log
        /\ subscribers' = r.map
        /\ script' = IF ran THEN sc ELSE NoScript
        /\ handles' = IF ~ran THEN handles
                      ELSE IF sc.sub
                      THEN Append(handles, [topic |-> sc.topic, cb |-> sc.target,
                                            called |-> FALSE])
                      ELSE [handles EXCEPT ![sc.h].called = TRUE]
        /\ unsubscribed' = IF ~ran THEN unsubscribed
                           ELSE IF sc.sub
                           THEN unsubscribed \ {<<sc.topic, sc.target>>}
                           ELSE unsubscribed \cup {<<sc.topic, sc.target>>}

\* The mock ingress: setInterval(() => broadcast(generateMockEvent()), 2000)
MockEventInterval(event, sc) ==
    /\ useMock
    /\ Publish(event, sc)
    /\ muxOp' = [op |-> "publish", h |-> 0]
    /\ UNCHANGED useMock
    /\ UNCHANGED notMux

\* The mock ingress: setInterval(() => broadcast(generateMockSystemEvent()), 3000)
MockSystemInterval(event, sc) ==
    /\ useMock
    /\ Publish(event, sc)
    /\ muxOp' = [op |-> "publish", h |-> 0]
    /\ UNCHANGED useMock
    /\ UNCHANGED notMux

\* The live ingress, ws.onmessage: JSON.parse and broadcast inside one try
\* block; the catch logs and returns.
OnMessage(msg, sc) ==
    /\ ~useMock
    /\ IF msg.parses
       THEN /\ Publish(msg.data, sc)
            /\ muxOp' = [op |-> IF broadcast(subscribers, msg.data, sc).threw
                                THEN "message_caught" ELSE "message", h |-> 0]
       ELSE /\ published' = NoEvent
            /\ delivered' = <<>>
            /\ script' = NoScript
            /\ muxOp' = [op |-> "message_caught", h |-> 0]
            /\ UNCHANGED <<subscribers, handles, unsubscribed>>
    /\ UNCHANGED useMock
    /\ UNCHANGED notMux

\* subscribersRef starts as an empty Map; USE_MOCK is fixed by the environment.
MuxInit ==
    /\ subscribers = <<>>
    /\ handles = <<>>
    /\ unsubscribed = {}
    /\ published = NoEvent
    /\ delivered = <<>>
    /\ useMock \in BOOLEAN
    /\ muxOp = [op |-> "mount", h |-> 0]
    /\ script = NoScript

MuxNext ==
    \/ \E t \in Topics, c \in Callbacks : Subscribe(t, c)
    \/ \E h \in DOMAIN handles : Unsubscribe(h)
    \/ \E e \in CameraEvents, sc \in Scripts : MockEventInterval(e, sc)
    \/ \E e \in SystemEvents, sc \in Scripts : MockSystemInterval(e, sc)
    \/ \E msg \in Messages, sc \in Scripts : OnMessage(msg, sc)

----------------------------------------------------------------------------
(* VideoPlayer: src/unnamed/part_009 holds two versions of the component,   *)
(* the one that drives hls.js itself with a ReactPlayer fallback (lines     *)
(* 16-216) and the one built on ReactPlayer alone (lines 218-378).          *)

\* "rp": the ReactPlayer version.  "hls": the hls.js version with a playlist
\* URL (isHls and Hls.isSupported()).  "fallback": the hls.js version with a
\* direct URL, which renders its ReactPlayer fallback.
Variants == {"rp", "hls", "fallback"}
NotMounted == "none"

BackoffBaseMs == 1000
BackoffCapMs == 30000

RECURSIVE Pow(_, _)
Pow(base, n) == IF n = 0 THEN 1 ELSE base * Pow(base, n - 1)

\* Math.min(Math.pow(2, retryCount) * 1000, 30000)
Delay(n) == Min(Pow(2, n) * BackoffBaseMs, BackoffCapMs)

TimerIds(timers_) == { timers_[i].id : i \in DOMAIN timers_ }

\* setTimeout(callback, delay): the pending timers with the new one, which
\* gets an id no pending timer has.
setTimeout(timers_, delay) ==
    LET id == CHOOSE n \in 1..(Len(timers_) + 1) :
                  /\ n \notin TimerIds(timers_)
                  /\ \A m \in 1..(n - 1) : m \in TimerIds(timers_)
    IN  Append(timers_, [id |-> id, delay |-> delay])

\* The id setTimeout returned.
Newest(timers_) == timers_[Len(timers_)].id

\* if (ref.current) clearTimeout(ref.current)
clearTimeout(timers_, id) == SelectSeq(timers_, LAMBDA t : t.id # id)

\* The timer at position i can be the next to fire: no timer set before it
\* is due at the same time or earlier.
CanFire(i) ==
    \A j \in 1..(i - 1) : pending[j].delay > pending[i].delay

\* Mutant: the success handler keeps the attempt counter.
ReadyRetryCountKept == retryCount

\* setRetryCount(0) in the success handlers
ReadyRetryCount == 0

\* The retry effect of the hls.js version, deps [error, retryCount, isHls]:
\* when a dep changed, the cleanup of the previous run (there is one if error
\* was set) clears the ref's timer, and the new run sets a timer if error is set.
RetryEffect(errBefore, rcBefore, errAfter, rcAfter) ==
    IF errBefore = errAfter /\ rcBefore = rcAfter
    THEN [ref |-> reconnectTimeoutRef, timers |-> pending, delay |-> 0]
    ELSE LET cleaned == IF errBefore
                        THEN clearTimeout(pending, reconnectTimeoutRef)
                        ELSE pending
         IN  IF errAfter
             THEN LET set == setTimeout(cleaned, Delay(rcAfter))
                  IN  [ref |-> Newest(set), timers |-> set, delay |-> Delay(rcAfter)]
             ELSE [ref |-> reconnectTimeoutRef, timers |-> cleaned, delay |-> 0]

\* A card renders <VideoPlayer streamUrl=... />: the initial state, and the
\* player instance starts loading the stream.
Mount(v) ==
    /\ variant = NotMounted
    /\ variant' = v
    /\ mounted' = TRUE
    /\ isPlaying' = FALSE
    /\ vpIsLoading' = TRUE
    /\ vpError' = FALSE
    /\ retryCount' = 0
    /\ reconnectTimeoutRef' = 0
    /\ pending' = <<>>
    /\ instance' = "loading"
    /\ playerOp' = "mount"
    /\ scheduled' = 0
    /\ failures' = 0
    /\ reinit' = TRUE
    /\ reported' = "none"
    /\ UNCHANGED notPlayer

\* onReady of ReactPlayer.  In the ReactPlayer version the instance has
\* key=player-retryCount, so a change of retryCount mounts a new instance.
handleReady ==
    /\ mounted
    /\ variant \in {"rp", "fallback"}
    /\ instance = "loading"
    /\ vpIsLoading' = FALSE
    /\ vpError' = FALSE
    /\ isPlaying' = TRUE
    /\ retryCount' = IF variant = "rp" THEN ReadyRetryCount ELSE retryCount
    /\ instance' = IF variant = "rp" /\ retryCount' # retryCount THEN "loading" ELSE "ready"
    /\ reinit' = (variant = "rp" /\ retryCount' # retryCount)
    /\ playerOp' = "ready"
    /\ scheduled' = 0
    /\ failures' = 0
    /\ UNCHANGED <<variant, mounted, reconnectTimeoutRef, pending>>
    /\ reported' = "playing"
    /\ UNCHANGED notPlayer

\* hls.on(Hls.Events.MANIFEST_PARSED, ...)
ManifestParsed ==
    /\ mounted
    /\ variant = "hls"
    /\ instance = "loading"
    /\ vpIsLoading' = FALSE
    /\ isPlaying' = TRUE
    /\ vpError' = FALSE
    /\ retryCount' = ReadyRetryCount
    /\ LET eff == RetryEffect(vpError, retryCount, FALSE, retryCount')
       IN  /\ reconnectTimeoutRef' = eff.ref
           /\ pending' = eff.timers
           /\ scheduled' = eff.delay
    /\ instance' = IF retryCount' # retryCount THEN "loading" ELSE "ready"
    /\ reinit' = (retryCount' # retryCount)
    /\ playerOp' = "ready"
    /\ failures' = 0
    /\ UNCHANGED <<variant, mounted>>
    /\ reported' = "playing"
    /\ UNCHANGED notPlayer

HlsErrorTypes == {"networkError", "mediaError", "otherError"}

\* hls.on(Hls.Events.ERROR, ...) with data.fatal: a network error restarts
\* loading and a media error recovers inside hls.js; any other fatal error
\* puts the component in error and destroys the Hls object.
HlsError(type) ==
    /\ mounted
    /\ variant = "hls"
    /\ instance \in {"loading", "ready"}
    /\ IF type = "otherError"
       THEN /\ Len(pending) < MaxPending
            /\ failures < MaxFailures
            /\ vpIsLoading' = FALSE
            /\ vpError' = TRUE
            /\ instance' = "destroyed"
            /\ LET eff == RetryEffect(vpError, retryCount, TRUE, retryCount)
               IN  /\ reconnectTimeoutRef' = eff.ref
                   /\ pending' = eff.timers
                   /\ scheduled' = eff.delay
            /\ failures' = failures + 1
            /\ playerOp' = "error"
       ELSE /\ playerOp' = "recover"
            /\ scheduled' = 0
            /\ UNCHANGED <<vpIsLoading, vpError, instance, reconnectTimeoutRef,
                           pending, failures>>
    /\ reinit' = FALSE
    /\ UNCHANGED <<variant, mounted, isPlaying, retryCount>>
    /\ reported' = IF type = "otherError" THEN "error" ELSE reported
    /\ UNCHANGED notPlayer

\* onError of ReactPlayer, which may report several errors for one attempt.
\* The ReactPlayer version calls attemptReconnect, which stores a new timer
\* in the ref without clearing the one the ref held; the fallback of the
\* hls.js version sets no timer (its retry effect requires isHls).
handleError ==
    /\ mounted
    /\ variant \in {"rp", "fallback"}
    /\ instance \in {"loading", "ready", "failed"}
    /\ vpError' = TRUE
    /\ vpIsLoading' = FALSE
    /\ instance' = "failed"
    /\ IF variant = "rp"
       THEN /\ Len(pending) < MaxPending
            /\ failures < MaxFailures
            /\ isPlaying' = FALSE
            /\ pending' = setTimeout(pending, Delay(retryCount))
            /\ reconnectTimeoutRef' = Newest(pending')
            /\ scheduled' = Delay(retryCount)
            /\ failures' = failures + 1
       ELSE /\ scheduled' = 0
            /\ UNCHANGED <<isPlaying, pending, reconnectTimeoutRef, failures>>
    /\ playerOp' = "error"
    /\ reinit' = FALSE
    /\ UNCHANGED <<variant, mounted, retryCount>>
    /\ reported' = "error"
    /\ UNCHANGED notPlayer

\* onBuffer of ReactPlayer
handleBuffer ==
    /\ mounted
    /\ variant \in {"rp", "fallback"}
    /\ instance = "ready"
    /\ vpIsLoading' = TRUE
    /\ playerOp' = "buffer"
    /\ scheduled' = 0
    /\ reinit' = FALSE
    /\ UNCHANGED <<variant, mounted, isPlaying, vpError, retryCount,
                   reconnectTimeoutRef, pending, instance, failures>>
    /\ reported' = IF variant = "rp" THEN "loading" ELSE reported
    /\ UNCHANGED notPlayer

\* onBufferEnd of ReactPlayer
handleBufferEnd ==
    /\ mounted
    /\ variant \in {"rp", "fallback"}
    /\ instance = "ready"
    /\ vpIsLoading' = FALSE
    /\ playerOp' = "bufferEnd"
    /\ scheduled' = 0
    /\ reinit' = FALSE
    /\ UNCHANGED <<variant, mounted, isPlaying, vpError, retryCount,
                   reconnectTimeoutRef, pending, instance, failures>>
    /\ reported' = IF variant = "rp" THEN "playing" ELSE reported
    /\ UNCHANGED notPlayer

\* The timer at position i fires.  The callback of the ReactPlayer version
\* clears error and bumps retryCount, which mounts a new ReactPlayer instance;
\* the callback of the hls.js version has an empty body.  On an unmounted
\* component the state setters do nothing.
ReconnectTimeout(i) ==
    /\ variant # NotMounted
    /\ i \in DOMAIN pending
    /\ CanFire(i)
    /\ pending' = SelectSeq(pending, LAMBDA t : t.id # pending[i].id)
    /\ IF mounted /\ variant = "rp"
       THEN /\ vpError' = FALSE
            /\ vpIsLoading' = TRUE
            /\ retryCount' = retryCount + 1
            /\ instance' = "loading"
            /\ reinit' = TRUE
       ELSE /\ reinit' = FALSE
            /\ UNCHANGED <<vpError, vpIsLoading, retryCount, instance>>
    /\ playerOp' = "timeout"
    /\ scheduled' = 0
    /\ UNCHANGED <<variant, mounted, isPlaying, reconnectTimeoutRef, failures>>
    /\ UNCHANGED reported
    /\ UNCHANGED notPlayer

\* The Retry button of the error overlay.  The handler only sets state: the
\* player instance is re-created when retryCount changes (the key of the
\* ReactPlayer version, a dep of the init effect of the hls.js version).
handleManualRetry ==
    /\ mounted
    /\ vpError
    /\ retryCount' = 0
    /\ vpError' = FALSE
    /\ vpIsLoading' = TRUE
    /\ pending' = clearTimeout(pending, reconnectTimeoutRef)
    /\ reinit' = (variant \in {"rp", "hls"} /\ retryCount # 0)
    /\ instance' = IF reinit' THEN "loading" ELSE instance
    /\ playerOp' = "manualRetry"
    /\ scheduled' = 0
    /\ failures' = 0
    /\ UNCHANGED <<variant, mounted, isPlaying, reconnectTimeoutRef>>
    /\ UNCHANGED reported
    /\ UNCHANGED notPlayer

\* The card is removed: the effect cleanups run.  The ReactPlayer version
\* clears the timer its ref holds; the hls.js version destroys the Hls object
\* and, if the retry effect had set a timer, clears the timer its ref holds.
Unmount ==
    /\ mounted
    /\ mounted' = FALSE
    /\ pending' = IF variant = "rp" \/ (variant = "hls" /\ vpError)
                  THEN clearTimeout(pending, reconnectTimeoutRef)
                  ELSE pending
    /\ instance' = "none"
    /\ playerOp' = "unmount"
    /\ scheduled' = 0
    /\ reinit' = FALSE
    /\ UNCHANGED <<variant, isPlaying, vpIsLoading, vpError, retryCount,
                   reconnectTimeoutRef, failures>>
    /\ UNCHANGED reported
    /\ UNCHANGED notPlayer

\* No player is rendered yet.
PlayerInit ==
    /\ variant = NotMounted
    /\ mounted = FALSE
    /\ isPlaying = FALSE
    /\ vpIsLoading = TRUE
    /\ vpError = FALSE
    /\ retryCount = 0
    /\ reconnectTimeoutRef = 0
    /\ pending = <<>>
    /\ instance = "none"
    /\ playerOp = "none"
    /\ scheduled = 0
    /\ failures = 0
    /\ reinit = FALSE
    /\ reported = "none"

PlayerNext ==
    \/ \E v \in Variants : Mount(v)
    \/ handleReady
    \/ ManifestParsed
    \/ \E type \in HlsErrorTypes : HlsError(type)
    \/ handleError
    \/ handleBuffer
    \/ handleBufferEnd
    \/ \E i \in 1..MaxPending : ReconnectTimeout(i)
    \/ handleManualRetry
    \/ Unmount

----------------------------------------------------------------------------
(* The camera grid: every StreamCard renders its own VideoPlayer, whose     *)
(* state and refs belong to that instance.  The model keeps the player of   *)
(* one card in the player variables and the players of the other cards in   *)
(* others; SwitchCard changes which card the next player event is for.      *)

\* The useState values and refs of the VideoPlayer instance in focus.
Saved ==
    [variant |-> variant, mounted |-> mounted, isPlaying |-> isPlaying,
     vpIsLoading |-> vpIsLoading, vpError |-> vpError, retryCount |-> retryCount,
     reconnectTimeoutRef |-> reconnectTimeoutRef, pending |-> pending,
     instance |-> instance, playerOp |-> playerOp, scheduled |-> scheduled,
     failures |-> failures, reinit |-> reinit, reported |-> reported]

\* Mutant: the timer ref and the retry counter are shared by all instances.
InstanceStateShared(cam) ==
    [others[cam] EXCEPT !.reconnectTimeoutRef = reconnectTimeoutRef,
                        !.retryCount = retryCount]

\* The state the VideoPlayer instance of card cam holds.
InstanceState(cam) == others[cam]

\* The state of an instance before its card renders it; also the
\* placeholder others holds for the card in focus.
NoInstance ==
    [variant |-> NotMounted, mounted |-> FALSE, isPlaying |-> FALSE,
     vpIsLoading |-> TRUE, vpError |-> FALSE, retryCount |-> 0,
     reconnectTimeoutRef |-> 0, pending |-> <<>>,
     instance |-> "none", playerOp |-> "none", scheduled |-> 0,
     failures |-> 0, reinit |-> FALSE, reported |-> "none"]

\* The next player event is for the card cam.
SwitchCard(cam) ==
    /\ cam # focus
    /\ focus' = cam
    /\ others' = [others EXCEPT ![focus] = Saved, ![cam] = NoInstance]
    /\ LET st == InstanceState(cam)
       IN  /\ variant' = st.variant
           /\ mounted' = st.mounted
           /\ isPlaying' = st.isPlaying
           /\ vpIsLoading' = st.vpIsLoading
           /\ vpError' = st.vpError
           /\ retryCount' = st.retryCount
           /\ reconnectTimeoutRef' = st.reconnectTimeoutRef
           /\ pending' = st.pending
           /\ instance' = st.instance
           /\ playerOp' = st.playerOp
           /\ scheduled' = st.scheduled
           /\ failures' = st.failures
           /\ reinit' = st.reinit
           /\ reported' = st.reported
    /\ UNCHANGED notGrid

\* No card has rendered its player yet.
GridInit ==
    /\ focus = "cam_01"
    /\ others = [cam \in CameraIds |-> NoInstance]

\* The cards of the grid with the ReactPlayer version of the player: mount,
\* success, failure, automatic and manual retry, removal.
GridNext ==
    \/ \E cam \in CameraIds : SwitchCard(cam)
    \/ Mount("rp")
    \/ handleReady
    \/ failures < MaxGridFailures /\ Len(pending) < MaxGridFailures /\ handleError
    \/ \E i \in 1..MaxPending : ReconnectTimeout(i)
    \/ handleManualRetry
    \/ Unmount

----------------------------------------------------------------------------
(* VideoOverlay (components/ui/Gauge.tsx, lines 102-180) and the            *)
(* ConnectedOverlay of StreamCard.tsx that feeds it.  Normalized            *)
(* coordinates and confidences are held in tenths and in thousandths, so    *)
(* that the products with the pixel sizes below are whole numbers.          *)

\* det.bbox, [x, y, w, h] in tenths: inside the unit square, reaching over
\* the right edge, starting left of the surface.
BBoxes ==
    { <<2, 2, 2, 2>>, <<5, 5, 6, 2>>, <<-1, 2, 3, 3>> }

OverlayDetections ==
    { [class |-> "car", confidence |-> 875, bbox |-> b] : b \in BBoxes }

\* lastEvent of useWebSocket(cameraId) as the overlay reads it: the event
\* type and the detections field, which is optional.
NoDetections == <<>>
DetectionLists ==
    { NoDetections }
    \cup UNION { [1..n -> OverlayDetections] : n \in 1..MaxDetections }
OverlayEvents ==
    { [eventType |-> ty, detections |-> ds] :
         ty \in {"detection", "anomaly"}, ds \in DetectionLists }
    \cup { [eventType |-> "alert"] }

\* ("detections" in lastEvent) ? lastEvent.detections || [] : []
\* (a detections property that is undefined is held as an absent one: the
\* expression gives [] for both)
DetectionsOf(event) ==
    IF "detections" \in DOMAIN event
    THEN event.detections
    ELSE NoDetections

\* entry.contentRect of the container: not laid out, collapsed, two sizes.
Surfaces ==
    { [w |-> 0, h |-> 0], [w |-> 0, h |-> 360],
      [w |-> 640, h |-> 360], [w |-> 320, h |-> 180] }

\* ctx.measureText(label).width, which depends on the font of the browser.
TextWidths == {40, 56}

\* nx * width for nx in tenths
Scale(tenths, pixels) == (tenths * pixels) \div 10

\* (det.confidence * 100).toFixed(0) for a confidence in thousandths
ToFixed0(thousandths) == (thousandths + 5) \div 10

TextHeight == 12

\* Mutant: both axes are scaled by the width.
RectOfByWidth(det, width, height) ==
    [x |-> Scale(det.bbox[1], width), y |-> Scale(det.bbox[2], width),
     w |-> Scale(det.bbox[3], width), h |-> Scale(det.bbox[4], width)]

\* const x = nx * width; const y = ny * height; const w = nw * width; ...
RectOf(det, width, height) ==
    [x |-> Scale(det.bbox[1], width), y |-> Scale(det.bbox[2], height),
     w |-> Scale(det.bbox[3], width), h |-> Scale(det.bbox[4], height)]

\* The body of detections.forEach: the box, the label background, the label.
DrawDetection(det, width, height, textWidth) ==
    LET r == RectOf(det, width, height)
        label == [class |-> det.class, percent |-> ToFixed0(det.confidence)]
    IN  << [op |-> "strokeRect", x |-> r.x, y |-> r.y, w |-> r.w, h |-> r.h],
           [op |-> "fillRect", x |-> r.x, y |-> r.y - TextHeight - 4,
            w |-> textWidth + 8, h |-> TextHeight + 4],
           [op |-> "fillText", text |-> label, x |-> r.x + 4, y |-> r.y - 4] >>

RECURSIVE DrawAll(_, _, _, _)
DrawAll(dets, width, height, textWidth) ==
    IF dets = <<>>
    THEN <<>>
    ELSE DrawDetection(Head(dets), width, height, textWidth)
         \o DrawAll(Tail(dets), width, height, textWidth)

\* Mutant: the draw effect does not clear the surface.
DrawNoClear(dets, width, height, textWidth) ==
    IF Len(dets) = 0 THEN <<>> ELSE DrawAll(dets, width, height, textWidth)

\* The draw effect: clear the surface, return if there is nothing to draw,
\* otherwise draw every detection.
Draw(dets, width, height, textWidth) ==
    << [op |-> "clearRect", x |-> 0, y |-> 0, w |-> width, h |-> height] >>
    \o (IF Len(dets) = 0 THEN <<>> ELSE DrawAll(dets, width, height, textWidth))

\* The part of rectangle r that is on a bitmap of width x height lies inside
\* the rectangle c.
Within(r, c, width, height) ==
    LET Max(a, b) == IF a > b THEN a ELSE b
    IN  /\ c.x <= Max(r.x, 0) /\ Min(r.x + r.w, width) <= c.x + c.w
        /\ c.y <= Max(r.y, 0) /\ Min(r.y + r.h, height) <= c.y + c.h

\* The rectangles on the bitmap after the canvas calls ops: clearRect takes
\* off what lies inside it, strokeRect adds a rectangle.
RECURSIVE Paint(_, _, _, _)
Paint(bitmap, ops, width, height) ==
    IF ops = <<>>
    THEN bitmap
    ELSE LET o == Head(ops)
             next == IF o.op = "clearRect"
                     THEN SelectSeq(bitmap, LAMBDA r : ~Within(r, o, width, height))
                     ELSE IF o.op = "strokeRect"
                     THEN Append(bitmap, o)
                     ELSE bitmap
         IN  Paint(next, Tail(ops), width, height)

\* How many of the rectangles of bitmap the canvas calls ops take off.
Erased(bitmap, ops, width, height) ==
    Len(bitmap) - Len(Paint(bitmap, SelectSeq(ops, LAMBDA o : o.op = "clearRect"),
                            width, height))

\* The ResizeObserver callback: setDims, and the draw effect runs again when
\* width or height changed (or when the detections prop is a fresh []).
ResizeObserved(size, textWidth) ==
    /\ dims' = size
    /\ canvasOps' = IF size # dims \/ detections = NoDetections
                    THEN Draw(detections, size.w, size.h, textWidth)
                    ELSE canvasOps
    \* setting the width or height attribute of a canvas resets its bitmap
    /\ LET bitmap == IF size # dims THEN <<>> ELSE painted
       IN  IF size # dims \/ detections = NoDetections
           THEN /\ painted' = Paint(bitmap, canvasOps', size.w, size.h)
                /\ erased' = (Len(painted) - Len(bitmap))
                                + Erased(bitmap, canvasOps', size.w, size.h)
           ELSE /\ painted' = painted
                /\ erased' = 0
    /\ overlayOp' = "resize"
    /\ UNCHANGED <<detections, isAnomaly>>
    /\ UNCHANGED notOverlay

\* useWebSocket(cameraId) latches a new lastEvent: ConnectedOverlay renders
\* again with its detections (or [] when it has none) and the effect redraws.
LastEvent(event, textWidth) ==
    /\ detections' = DetectionsOf(event)
    /\ isAnomaly' = (event.eventType = "anomaly")
    /\ canvasOps' = Draw(DetectionsOf(event), dims.w, dims.h, textWidth)
    /\ painted' = Paint(painted, canvasOps', dims.w, dims.h)
    /\ erased' = Erased(painted, canvasOps', dims.w, dims.h)
    /\ overlayOp' = "event"
    /\ UNCHANGED dims
    /\ UNCHANGED notOverlay

\* First render: dims 0 x 0, no event yet, and the effect clears the canvas.
OverlayInit ==
    /\ dims = [w |-> 0, h |-> 0]
    /\ detections = NoDetections
    /\ isAnomaly = FALSE
    /\ canvasOps = Draw(NoDetections, 0, 0, 0)
    /\ painted = <<>>
    /\ erased = 0
    /\ overlayOp = "mount"

OverlayNext ==
    \/ \E size \in Surfaces, tw \in TextWidths : ResizeObserved(size, tw)
    \/ \E event \in OverlayEvents, tw \in TextWidths : LastEvent(event, tw)

----------------------------------------------------------------------------
(* api.fetchNextImage called on its own, over more queue answers than the   *)
(* triage workflow is run with                                              *)

ApiItems ==
    { Item(id, path, label) :
         id \in {"task_123", "task_124"}, path \in {"123.jpg", "124.jpg"},
         label \in {"car", NullLabel, ""} }

ApiResponses ==
    { [rejected |-> TRUE, ok |-> FALSE, queue |-> <<>>],
      [rejected |-> FALSE, ok |-> FALSE, queue |-> <<>>] }
    \cup { [rejected |-> FALSE, ok |-> TRUE, queue |-> q] :
             q \in SeqsUpTo(ApiItems, MaxQueueLen) }

NoCall == [fn |-> "none", res |-> [rejected |-> FALSE, ok |-> FALSE, queue |-> <<>>]]

\* await api.fetchNextImage() while the server answers res
CallFetchNextImage(res) ==
    /\ apiCall' = [fn |-> "fetchNextImage", res |-> res]
    /\ apiResult' = fetchNextImage(res)
    /\ UNCHANGED notApi

ApiInit ==
    /\ apiCall = NoCall
    /\ apiResult = [threw |-> FALSE, value |-> Undefined]

ApiNext == \E res \in ApiResponses : CallFetchNextImage(res)

----------------------------------------------------------------------------
(* useWebSocket (contexts/WebSocketContext.tsx, lines 205-226): the         *)
(* subscribe effect of every consumer, on the registry of the provider.     *)
(* Each run of the effect passes a new closure, named by a number.          *)

ConsumerIds == 1..MaxConsumers

\* The cameraId argument of useWebSocket
CameraProps == { JsUndefined, "", "cam_01", "cam_03" }

\* cameraId || null
TopicOf(cameraId) ==
    IF cameraId \in { JsUndefined, "" } THEN Wildcard ELSE cameraId

NoRegistration == [topic |-> "none", cb |-> 0]
NoConsumer == [mounted |-> FALSE, cameraId |-> JsUndefined, kept |-> NoRegistration]

\* Mutant: the effect returns no cleanup.
CleanupSkipped(map, kept) == map

\* The cleanup of the effect: the disposer subscribe returned
Cleanup(map, kept) ==
    IF kept = NoRegistration THEN map ELSE unsubscribe(map, kept.topic, kept.cb)

\* The body of the effect: context.subscribe(cameraId || null, (event) => ...)
Effect(map, cameraId, cb) == subscribe(map, TopicOf(cameraId), cb)

Mounted == { k \in ConsumerIds : consumers[k].mounted }

\* The position of consumer k among the mounted ones, from 0
Rank(k) == Cardinality({ j \in Mounted : j < k })

\* The cleanups of the consumers ks, then their effects with new closures.
RECURSIVE CleanupAll(_, _)
CleanupAll(map, ks) ==
    IF ks = {}
    THEN map
    ELSE LET k == CHOOSE j \in ks : \A i \in ks : j <= i
         IN  CleanupAll(Cleanup(map, consumers[k].kept), ks \ {k})

RECURSIVE EffectAll(_, _)
EffectAll(map, ks) ==
    IF ks = {}
    THEN map
    ELSE LET k == CHOOSE j \in ks : \A i \in ks : j <= i
         IN  EffectAll(Effect(map, consumers[k].cameraId, nextCb + Rank(k)), ks \ {k})

ConsumerFrame ==
    /\ UNCHANGED <<handles, unsubscribed, published, delivered, useMock, muxOp, script>>
    /\ UNCHANGED notConsumer

\* A component that calls useWebSocket(cameraId) mounts.
ConsumerMount(k, cameraId) ==
    /\ ~consumers[k].mounted
    /\ nextCb <= MaxEffects
    /\ subscribers' = Effect(subscribers, cameraId, nextCb)
    /\ consumers' = [consumers EXCEPT ![k] =
                        [mounted |-> TRUE, cameraId |-> cameraId,
                         kept |-> [topic |-> TopicOf(cameraId), cb |-> nextCb]]]
    /\ nextCb' = nextCb + 1
    /\ consumerOp' = [op |-> "mount", k |-> k, from |-> JsUndefined]
    /\ ConsumerFrame

\* The component renders with another cameraId: cleanup, then the effect.
ConsumerCameraChange(k, cameraId) ==
    /\ consumers[k].mounted
    /\ cameraId # consumers[k].cameraId
    /\ nextCb <= MaxEffects
    /\ subscribers' = Effect(Cleanup(subscribers, consumers[k].kept), cameraId, nextCb)
    /\ consumers' = [consumers EXCEPT ![k].cameraId = cameraId,
                                      ![k].kept = [topic |-> TopicOf(cameraId),
                                                   cb |-> nextCb]]
    /\ nextCb' = nextCb + 1
    /\ consumerOp' = [op |-> "camera", k |-> k, from |-> consumers[k].cameraId]
    /\ ConsumerFrame

\* The provider renders again (isConnected changed): its value is a new
\* object, so the effect of every mounted consumer runs again.
ContextChanged ==
    /\ Mounted # {}
    /\ nextCb + Cardinality(Mounted) - 1 <= MaxEffects
    /\ subscribers' = EffectAll(CleanupAll(subscribers, Mounted), Mounted)
    /\ consumers' = [k \in ConsumerIds |->
                        IF consumers[k].mounted
                        THEN [consumers[k] EXCEPT
                                !.kept = [topic |-> TopicOf(consumers[k].cameraId),
                                          cb |-> nextCb + Rank(k)]]
                        ELSE consumers[k]]
    /\ nextCb' = nextCb + Cardinality(Mounted)
    /\ consumerOp' = [op |-> "context", k |-> 0, from |-> JsUndefined]
    /\ ConsumerFrame

\* The component unmounts: cleanup.
ConsumerUnmount(k) ==
    /\ consumers[k].mounted
    /\ subscribers' = Cleanup(subscribers, consumers[k].kept)
    /\ consumers' = [consumers EXCEPT ![k] = NoConsumer]
    /\ nextCb' = nextCb
    /\ consumerOp' = [op |-> "unmount", k |-> k, from |-> consumers[k].cameraId]
    /\ ConsumerFrame

ConsumerInit ==
    /\ consumers = [k \in ConsumerIds |-> NoConsumer]
    /\ nextCb = 1
    /\ consumerOp = [op |-> "none", k |-> 0, from |-> JsUndefined]

ConsumerNext ==
    \/ \E k \in ConsumerIds, cam \in CameraProps : ConsumerMount(k, cam)
    \/ \E k \in ConsumerIds, cam \in CameraProps : ConsumerCameraChange(k, cam)
    \/ ContextChanged
    \/ \E k \in ConsumerIds : ConsumerUnmount(k)

----------------------------------------------------------------------------
(* MissionControlPage (app/page.tsx): useWebSocket() and the event log.     *)
(* The callback of useWebSocket only sets the lastEvent state; the effect   *)
(* of the page runs at the next render, with the value lastEvent has then.  *)

NoLastEvent == [eventType |-> "null"]

EventLogSize == 50

\* The n-th camera event published: its id makes it a value of its own.
CamEvent(n) ==
    [eventType |-> <<"detection", "anomaly", "alert">>[(n % 3) + 1],
     cameraId |-> <<"cam_01", "cam_03">>[(n % 2) + 1],
     id |-> n]

PageSystemEvent == [eventType |-> "system", metricType |-> "cpu_usage"]

\* Mutant: the log is never cut.
SliceNever(newEvents) == newEvents

\* newEvents.length > 50 ? newEvents.slice(newEvents.length - 50) : newEvents
Slice(newEvents) ==
    IF Len(newEvents) > EventLogSize
    THEN SubSeq(newEvents, Len(newEvents) - EventLogSize + 1, Len(newEvents))
    ELSE newEvents

\* (event) => setLastEvent(event), called by broadcast for the wildcard
\* topic: the update replaces one that no render has taken yet.
SetPageLastEvent(event) ==
    /\ pageDirty => overwritten < MaxOverwritten
    /\ pageLastEvent' = event
    /\ pageDirty' = TRUE
    /\ overwritten' = IF pageDirty THEN overwritten + 1 ELSE overwritten
    /\ pageOp' = "publish"
    /\ UNCHANGED events
    /\ UNCHANGED notPage

PageCameraEvent ==
    /\ camSeq < MaxCamEvents
    /\ camSeq' = camSeq + 1
    /\ SetPageLastEvent(CamEvent(camSeq + 1))

PageSystemMetric ==
    /\ camSeq' = camSeq
    /\ SetPageLastEvent(PageSystemEvent)

\* The page renders with the new lastEvent and its effect runs.
PageRender ==
    /\ pageDirty
    /\ pageDirty' = FALSE
    /\ events' = IF pageLastEvent # NoLastEvent /\ pageLastEvent.eventType # "system"
                 THEN Slice(Append(events, pageLastEvent))
                 ELSE events
    /\ pageOp' = "render"
    /\ UNCHANGED <<pageLastEvent, camSeq, overwritten>>
    /\ UNCHANGED notPage

PageInit ==
    /\ pageLastEvent = NoLastEvent
    /\ pageDirty = FALSE
    /\ events = <<>>
    /\ camSeq = 0
    /\ overwritten = 0
    /\ pageOp = "mount"

PageNext ==
    \/ PageCameraEvent
    \/ PageSystemMetric
    \/ PageRender

----------------------------------------------------------------------------
(* HealthDashboard (src/unnamed/part_011)                                   *)

MetricTypes == { "cpu_usage", "memory_usage", "kafka_lag" }

\* SystemMetricEvent, the fields the dashboard reads
MetricEvents ==
    { [eventType |-> "system", metricType |-> m, value |-> r.value, status |-> r.status] :
         m \in MetricTypes,
         r \in { [value |-> 40, status |-> "healthy"],
                 [value |-> 95, status |-> "critical"] } }

HealthEvents ==
    MetricEvents \cup { [eventType |-> "detection", cameraId |-> "cam_01"] }

InitialGauge == [value |-> 0, status |-> "healthy"]
InitialMetrics == [cpu |-> InitialGauge, memory |-> InitialGauge, kafkaLag |-> InitialGauge]

\* Mutant: the updater starts from the initial metrics.
setMetricsNoSpread(prev, sysEvent) ==
    LET gauge == [value |-> sysEvent.value, status |-> sysEvent.status]
    IN  IF sysEvent.metricType = "cpu_usage" THEN [InitialMetrics EXCEPT !.cpu = gauge]
        ELSE IF sysEvent.metricType = "memory_usage"
        THEN [InitialMetrics EXCEPT !.memory = gauge]
        ELSE IF sysEvent.metricType = "kafka_lag"
        THEN [InitialMetrics EXCEPT !.kafkaLag = gauge]
        ELSE InitialMetrics

\* The updater passed to setMetrics
setMetrics(prev, sysEvent) ==
    LET gauge == [value |-> sysEvent.value, status |-> sysEvent.status]
    IN  IF sysEvent.metricType = "cpu_usage" THEN [prev EXCEPT !.cpu = gauge]
        ELSE IF sysEvent.metricType = "memory_usage" THEN [prev EXCEPT !.memory = gauge]
        ELSE IF sysEvent.metricType = "kafka_lag" THEN [prev EXCEPT !.kafkaLag = gauge]
        ELSE prev

\* (event) => setLastEvent(event) of the dashboard's useWebSocket()
SetHealthLastEvent(event) ==
    /\ healthLastEvent' = event
    /\ healthDirty' = TRUE
    /\ healthOp' = "publish"
    /\ UNCHANGED <<metrics, seen>>
    /\ UNCHANGED notHealth

\* The dashboard renders with the new lastEvent and its effect runs.
HealthRender ==
    /\ healthDirty
    /\ healthDirty' = FALSE
    /\ IF healthLastEvent = NoLastEvent \/ healthLastEvent.eventType # "system"
       THEN UNCHANGED <<metrics, seen>>
       ELSE /\ metrics' = setMetrics(metrics, healthLastEvent)
            /\ seen' = [seen EXCEPT ![healthLastEvent.metricType] = healthLastEvent]
    /\ healthOp' = "render"
    /\ UNCHANGED healthLastEvent
    /\ UNCHANGED notHealth

HealthInit ==
    /\ healthLastEvent = NoLastEvent
    /\ healthDirty = FALSE
    /\ metrics = InitialMetrics
    /\ seen = [m \in MetricTypes |-> NoLastEvent]
    /\ healthOp = "mount"

HealthNext ==
    \/ \E event \in HealthEvents : SetHealthLastEvent(event)
    \/ HealthRender

----------------------------------------------------------------------------
(* Specifications                                                           *)

Init ==
    /\ TriageInit /\ MuxInit /\ PlayerInit /\ GridInit /\ OverlayInit
    /\ ApiInit /\ ConsumerInit /\ PageInit /\ HealthInit

\* NEXT_PUBLIC_USE_MOCK_WS is not set: USE_MOCK defaults to true.  The
\* components other than the provider do not read it.
DefaultEnv == Init /\ useMock

\* The triage page on its own.
TriageSpec == DefaultEnv /\ [][TriageNext]_vars

\* The event multiplexer on its own.
MuxSpec == Init /\ [][MuxNext]_vars

\* The video player alone.
PlayerSpec == DefaultEnv /\ [][PlayerNext]_vars

\* The players of the cards of the grid.
GridSpec == DefaultEnv /\ [][GridNext]_vars

\* The detection overlay of one card alone.
OverlaySpec == DefaultEnv /\ [][OverlayNext]_vars

\* api.fetchNextImage alone
ApiSpec == DefaultEnv /\ [][ApiNext]_vars

\* The useWebSocket consumers and the registry
ConsumerSpec == DefaultEnv /\ [][ConsumerNext]_vars

\* The event log of the page
PageSpec == DefaultEnv /\ [][PageNext]_vars

\* The gauges of the health dashboard
HealthSpec == DefaultEnv /\ [][HealthNext]_vars

----------------------------------------------------------------------------
(* Properties of the triage workflow (checked under TriageSpec)             *)

TaskIds == { i.id : i \in Items }
CallsFor(id) == { k \in DOMAIN calls : calls[k].id = id }
DecidedFor(id) == { k \in DOMAIN decided : decided[k].task.id = id }
Last(seq) == seq[Len(seq)]
IsDecide(op) == op \in {"validate", "reject"}
\* A decision has been taken and its submission has not settled.
DecisionPending == timers # <<>> \/ inflight # {}

\* C1: over any sequence and timing of confirm / reject / skip inputs, at
\* most one submission call is ever issued for one task id.
C1_AtMostOneSubmissionPerTask ==
    \A i, j \in DOMAIN calls : calls[i].id = calls[j].id => i = j

\* C2: an accepted decide shows the accept / reject confirmation in the same
\* step and issues no submission call in it; it leads to one submission call
\* (pending on its timer, or issued), which is issued at least ConfirmDelay ms
\* after the decision and carries the id and label of the task that was
\* displayed at the decision and the decision's flag (validate: true,
\* reject: false).
C2_CallMatchesDecision ==
    /\ Len(calls) + Len(timers) = Len(decided)
    /\ \A k \in DOMAIN calls :
        /\ k <= Len(decided)
        /\ calls[k].id = decided[k].task.id
        /\ calls[k].currentLabel = decided[k].task.currentLabel
        /\ calls[k].verified = decided[k].verified
        /\ calls[k].waited >= ConfirmDelay

C2_DecideStep ==
    Len(decided') > Len(decided) =>
        /\ IsDecide(lastOp')
        /\ Last(decided').task = task
        /\ Last(decided').verified = (lastOp' = "validate")
        /\ calls' = calls
        /\ inflight' = inflight
        /\ View.screen = "TRIAGE STATION" =>
              View'.overlay = (IF lastOp' = "validate" THEN "correct" ELSE "incorrect")

C2_SubmissionAfterDelay == [](C2_CallMatchesDecision) /\ [][C2_DecideStep]_vars

C2_Witness ==
    /\ Len(calls) = 2
    /\ calls[1] = [id |-> "task_123", verified |-> TRUE, currentLabel |-> "car",
                   waited |-> ConfirmDelay]
    /\ calls[2] = [id |-> "task_124", verified |-> FALSE, currentLabel |-> "unknown",
                   waited |-> ConfirmDelay]

\* C3: a skip input never produces a submission call: the skip step issues
\* none and schedules none, whatever the state it arrives in.
C3_SkipNeverSubmits ==
    [][lastOp' = "skip" =>
          /\ calls' = calls
          /\ inflight' = inflight
          /\ timers' = timers
          /\ decided' = decided]_vars

C3_Witness ==
    /\ lastOp = "skip"
    /\ fetchIssued
    /\ hasTask
    /\ calls = <<>>
    /\ timers = <<>>

\* C4: a skip input arriving after a decision was taken for the current task
\* (during the confirmation delay or while the submission is in flight) is a
\* no-op: it starts no queue fetch and leaves the query as it is.
C4_SkipAfterDecisionIsNoOp ==
    [][(lastOp' = "skip" /\ DecisionPending) =>
          /\ ~fetchIssued'
          /\ UNCHANGED <<qData, qStatus, qFetching>>]_vars

\* C5: after a skip in the ready state, while the fetch it started is still
\* running, a confirm / reject input schedules no submission for the skipped
\* task.
C5_NoDecisionOnSkippedTask ==
    [][(/\ lastOp = "skip" /\ fetchIssued /\ qFetching
        /\ hasTask /\ ~isError /\ ~DecisionPending
        /\ IsDecide(lastOp')) =>
          /\ timers' = timers
          /\ decided' = decided]_vars

\* C6: an empty queue is shown as a state of its own, not as the one a failed
\* fetch is shown as.
C6_EmptyQueueDistinctFromFailure ==
    (lastOp = "fetch_settled" /\ qStatus = "success" /\ qData = NullTask) =>
        View # Render(FALSE, TRUE, Undefined, feedback)

\* C7: when a submission call fails, the workflow enters an observable
\* failure state: what is displayed changes (it does not stay the
\* confirmation display) and no other task is fetched.
C7_SubmissionFailureSurfaced ==
    [][(lastOp' = "submit_settled" /\ mStatus' = "error" /\ mStatus # "error") =>
          /\ View' # View
          /\ ~fetchIssued']_vars

\* C8: a submission is never retried automatically: for every task id the
\* number of submission calls issued never exceeds the number of decide
\* inputs accepted for it, whether the calls succeed or fail.
C8_NoAutomaticRetry ==
    \A id \in TaskIds : Cardinality(CallsFor(id)) <= Cardinality(DecidedFor(id))

C8_Witness ==
    /\ lastOp = "submit_settled"
    /\ mStatus = "error"
    /\ inflight = {}
    /\ timers = <<>>
    /\ Len(calls) = 1

\* C34 (refuted): a key event that repeats the decide key of the step before
\* has no effect of its own: it schedules no submission, records no decision
\* and leaves the confirmation as it is.
C34_RepeatedKeyIsIdempotent ==
    [][(IsDecide(lastOp) /\ lastOp' = lastOp) =>
          UNCHANGED <<timers, decided, feedback>>]_vars

\* C28 (refuted): while a fetch of the next task is in progress after a
\* submission or a skip, the workflow is not ready with the previous task.
C28_NotReadyWhileFetching ==
    (triageMounted /\ qFetching /\ lastOp \in {"skip", "submit_settled"})
        => View.screen # "TRIAGE STATION"

\* C29 (refuted): a submission whose POST failed or got a non-success status
\* does not increment the validated counter and triggers no fetch.
C29_AdvanceOnlyOnAcknowledgedSuccess ==
    [][settled' \in {"http_error", "network_error"} =>
          (validatedCount' = validatedCount /\ ~fetchIssued')]_vars

\* C30 (refuted): once the component is unmounted no submission is sent.
C30_NoSubmissionAfterUnmount ==
    [][~triageMounted => calls' = calls]_vars

----------------------------------------------------------------------------
(* Properties of the event multiplexer (checked under MuxSpec)              *)

Invoked(topic, cb) ==
    \E i \in DOMAIN delivered : delivered[i] = [cb |-> cb, topic |-> topic]
Registered(topic, cb) ==
    MapHas(subscribers, topic) /\ \E i \in DOMAIN subscribers[topic] : subscribers[topic][i] = cb

\* C9: after subscribe(T, C) and a call of the returned unsubscribe, no
\* publish invokes C for topic T, as long as C is not subscribed to T again.
C9_NoDeliveryAfterUnsubscribe ==
    [][\A t \in Topics, c \in Callbacks :
          (<<t, c>> \in unsubscribed /\ <<t, c>> \in unsubscribed')
              => ~Invoked(t, c)']_vars

C9_Witness ==
    /\ published = [eventType |-> "detection", cameraId |-> "cam_01"]
    /\ <<"cam_01", "cbA">> \in unsubscribed
    /\ ~Registered("cam_01", "cbA")
    /\ Invoked("cam_01", "cbB")
    /\ Len(delivered) = 1

OnlyUnder(x, cb) ==
    Registered(x, cb) /\ \A t \in Topics \ {x} : ~Registered(t, cb)
InvokedAtAll(cb) == \E t \in Topics : Invoked(t, cb)

\* C11: a callback registered only under camera X is invoked by a publish
\* only if the event is not a system event and carries cameraId X.
C11_TopicIsolation ==
    [][\A x \in CameraIds, c \in Callbacks :
          (OnlyUnder(x, c) /\ OnlyUnder(x, c)' /\ InvokedAtAll(c)') =>
              /\ JsProp(published', "eventType") # "system"
              /\ JsProp(published', "cameraId") = x]_vars

C11_Witness ==
    /\ published = [eventType |-> "detection", cameraId |-> "cam_01"]
    /\ OnlyUnder("cam_01", "cbA")
    /\ OnlyUnder("cam_03", "cbB")
    /\ delivered = <<[cb |-> "cbA", topic |-> "cam_01"]>>

\* C12 (refuted): a disposer whose registration is still counted as live
\* (never called) keeps its callback registered, and calling a disposer a
\* second time leaves the registry as it was.
LiveHandlesRegistered ==
    \A h \in DOMAIN handles :
        ~handles[h].called => Registered(handles[h].topic, handles[h].cb)
SecondCallIsNoOp ==
    (muxOp'.op = "unsubscribe" /\ handles[muxOp'.h].called) =>
        subscribers' = subscribers
C12_DisposerExactAndIdempotent ==
    [][LiveHandlesRegistered' /\ SecondCallIsNoOp]_vars

\* The subscription (t, cb) is entitled to the event.
Entitled(t, event) ==
    \/ t = Wildcard
    \/ JsProp(event, "eventType") # "system" /\ JsProp(event, "cameraId") = t
Count(t, cb) ==
    Cardinality({ i \in DOMAIN delivered : delivered[i] = [cb |-> cb, topic |-> t] })
IsPublish == published # NoEvent /\ published \in WellFormedEvents

\* C13 (refuted): a publish invokes exactly once every subscription that was
\* registered when it started and is entitled to the event.
C13_ExactlyOncePerSubscription ==
    [][IsPublish' =>
          \A t \in Topics, c \in Callbacks :
              (Registered(t, c) /\ Entitled(t, published')) => Count(t, c)' = 1]_vars

\* C14 (refuted): when a callback calls a disposer during a publish, no
\* subscription registered at its start and entitled to the event is skipped.
C14_MutationDuringPublishSafe ==
    [][(IsPublish' /\ script'.h # 0) =>
          \A t \in Topics, c \in Callbacks :
              (Registered(t, c) /\ Entitled(t, published')) => Invoked(t, c)']_vars

\* C15 (refuted): a payload received on the live ingress that matches
\* neither event schema is delivered to no callback.
C15_MalformedPayloadDropped ==
    (muxOp.op \in {"message", "message_caught"} /\ published \notin WellFormedEvents)
        => delivered = <<>>

\* C32 (refuted): a publish invokes only callbacks that were subscribed
\* before it started; a callback subscribed while the event is being
\* delivered is not invoked with it.
C32_NoReplayToLateSubscribers ==
    [][\A t \in Topics, c \in Callbacks : Invoked(t, c)' => Registered(t, c)]_vars

\* C31: every topic key present in the registry maps to a non-empty set of
\* callbacks, after any sequence of subscribe and disposer calls (repeated
\* and stale ones, and ones made by a callback during a publish, included).
C31_NoEmptyEntry ==
    \A t \in DOMAIN subscribers : Len(subscribers[t]) > 0

\* The last callback of cam_01 was removed by a disposer call and its key
\* went with it, while cam_03 keeps its entry.
C31_Witness ==
    /\ muxOp.op = "unsubscribe"
    /\ handles[muxOp.h].topic = "cam_01"
    /\ ~MapHas(subscribers, "cam_01")
    /\ Registered("cam_03", "cbB")

----------------------------------------------------------------------------
(* Properties of the video player (checked under PlayerSpec)                *)

Disposed == variant # NotMounted /\ ~mounted
\* The lifecycle state playing: playback started, no overlay shown.
Playing == mounted /\ isPlaying /\ ~vpIsLoading /\ ~vpError

\* C16 (refuted): the n-th reconnect timer set since the last success or
\* manual retry has the delay min(2^n, 30) seconds, counting from n = 0.
C16_BackoffSequence ==
    scheduled # 0 => scheduled = Delay(failures - 1)

\* C17 (refuted): a mounted player in error has a reconnect timer pending,
\* and a timer that fires while the player is in error takes it out of error
\* into a new connection attempt.
C17_ErrorLeadsToConnecting ==
    [][/\ (mounted' /\ vpError') => pending' # <<>>
       /\ (playerOp' = "timeout" /\ mounted /\ vpError) => (~vpError' /\ reinit')]_vars

\* C18 (refuted): a manual retry leaves no timer pending, leaves the attempt
\* counter at zero and re-creates the player instance.
C18_ManualRetryReinitializes ==
    [][playerOp' = "manualRetry" =>
          (pending' = <<>> /\ retryCount' = 0 /\ reinit')]_vars

\* C19 (refuted): a disposed player has no reconnect timer pending.
C19_DisposalCancelsAllTimers ==
    Disposed => pending = <<>>

PlayerOf(cam) == IF cam = focus THEN Saved ELSE others[cam]
\* This step is an event of the player of the card in focus.
PlayerEvent == focus' = focus /\ Saved' # Saved

C25_AtMostOnePendingTimer ==
    Len(pending) <= 1

\* The lifecycle state the flags stand for.
Lifecycle ==
    IF vpError THEN "error"
    ELSE IF vpIsLoading THEN "loading"
    ELSE IF isPlaying THEN "playing"
    ELSE "idle"

\* C26 (refuted): the last status reported through onStatusChange is the
\* lifecycle state the mounted player is in.
C26_StatusFeedCurrent ==
    mounted => reported = Lifecycle

\* C27 (refuted): the flags are consistent: never error together with
\* playing and never error together with loading.
C27_FlagsConsistent ==
    /\ ~(vpError /\ isPlaying)
    /\ ~(vpError /\ vpIsLoading)

----------------------------------------------------------------------------
(* Properties of the detection overlay (checked under OverlaySpec)          *)

StrokeRects == SelectSeq(canvasOps, LAMBDA o : o.op = "strokeRect")
DetectionOps == SelectSeq(canvasOps, LAMBDA o : o.op # "clearRect")

\* C21: the i-th rectangle on the surface is the i-th detection scaled by the
\* current width and height: origin (x*width, y*height), size (w*width,
\* h*height); this holds again after a resize.
C21_OverlayGeometry ==
    /\ Len(StrokeRects) = Len(detections)
    /\ \A i \in DOMAIN detections :
          LET b == detections[i].bbox
              r == StrokeRects[i]
          IN  /\ 10 * r.x = b[1] * dims.w
              /\ 10 * r.y = b[2] * dims.h
              /\ 10 * r.w = b[3] * dims.w
              /\ 10 * r.h = b[4] * dims.h

C21_Witness ==
    /\ overlayOp = "resize"
    /\ dims = [w |-> 640, h |-> 360]
    /\ Len(detections) = 1
    /\ detections[1].bbox = <<2, 2, 2, 2>>
    /\ StrokeRects = << [op |-> "strokeRect", x |-> 128, y |-> 72, w |-> 128, h |-> 72] >>

\* C22 (refuted): on a surface of zero width or zero height the redraw issues
\* no rectangle and no label call.
C22_ZeroSurfaceDrawsNothing ==
    (dims.w = 0 \/ dims.h = 0) => DetectionOps = <<>>

\* C23 (refuted): every rectangle drawn lies within [0, width] x [0, height]
\* of the surface, whatever the normalized coordinates are.
C23_RectanglesClamped ==
    \A i \in DOMAIN StrokeRects :
        LET r == StrokeRects[i]
        IN  /\ 0 <= r.x /\ r.x + r.w <= dims.w
            /\ 0 <= r.y /\ r.y + r.h <= dims.h
            /\ 0 <= r.w /\ 0 <= r.h

\* C33: the rectangles on the overlay are exactly those of the detections of
\* the latest event, one per detection in their order; nothing of an earlier
\* event remains, and an event without detections leaves the overlay empty.
C33_ClearAndRepaint ==
    /\ Len(painted) = Len(detections)
    /\ \A i \in DOMAIN detections :
          LET r == RectOf(detections[i], dims.w, dims.h)
          IN  painted[i] = [op |-> "strokeRect", x |-> r.x, y |-> r.y,
                            w |-> r.w, h |-> r.h]

\* An event with one detection arrived while two rectangles of the previous
\* event were on the overlay.
C33_Witness ==
    /\ overlayOp = "event"
    /\ erased = 2
    /\ Len(painted) = 1
    /\ dims = [w |-> 640, h |-> 360]

----------------------------------------------------------------------------
(* Properties of api.fetchNextImage (checked under ApiSpec)                 *)

\* C35: a rejected request or a non-OK answer makes fetchNextImage throw; an
\* empty list gives null; a non-empty list gives the task with the id, the
\* image reference and the label of the first item of the list, the label
\* being "unknown" when the item has none.
C35_FirstItemOrNullOrFailure ==
    apiCall.fn = "fetchNextImage" =>
        LET res == apiCall.res
            first == res.queue[1]
        IN  IF res.rejected \/ ~res.ok
            THEN apiResult.threw
            ELSE IF res.queue = <<>>
            THEN ~apiResult.threw /\ apiResult.value = NullTask
            ELSE /\ ~apiResult.threw
                 /\ apiResult.value.kind = "task"
                 /\ apiResult.value.id = first.id
                 /\ apiResult.value.imageUrl = first.image_path
                 /\ first.current_label \notin {NullLabel, ""}
                       => apiResult.value.currentLabel = first.current_label
                 /\ first.current_label \in {NullLabel, ""}
                       => apiResult.value.currentLabel = "unknown"

\* The list holds two different items, the first one without a label.
C35_Witness ==
    /\ apiCall.fn = "fetchNextImage"
    /\ Len(apiCall.res.queue) = 2
    /\ apiCall.res.queue[1] = Item("task_124", "124.jpg", NullLabel)
    /\ apiCall.res.queue[2] = Item("task_123", "123.jpg", "car")
    /\ apiResult.value.id = "task_124"
    /\ apiResult.value.currentLabel = "unknown"

----------------------------------------------------------------------------
(* Properties of the useWebSocket consumers (checked under ConsumerSpec)    *)

\* How many times callback cb is registered under topic t
TimesRegistered(t, cb) ==
    IF MapHas(subscribers, t)
    THEN Cardinality({ i \in DOMAIN subscribers[t] : subscribers[t][i] = cb })
    ELSE 0

RECURSIVE RegistrySize(_)
RegistrySize(ts) ==
    IF ts = {}
    THEN 0
    ELSE LET t == CHOOSE x \in ts : TRUE
         IN  Len(subscribers[t]) + RegistrySize(ts \ {t})

\* C36: every mounted consumer holds exactly one registration, under its
\* camera id, or under the wildcard when it has none; the registry holds as
\* many callbacks as there are mounted consumers, so a camera change or an
\* unmount leaves no registration behind.
C36_OneRegistrationPerConsumer ==
    /\ \A k \in Mounted :
          LET c == consumers[k]
              topic == IF c.cameraId \in { JsUndefined, "" } THEN Wildcard
                       ELSE c.cameraId
          IN  /\ TimesRegistered(topic, c.kept.cb) = 1
              /\ \A t \in Topics \ {topic} : TimesRegistered(t, c.kept.cb) = 0
    /\ RegistrySize(DOMAIN subscribers) = Cardinality(Mounted)

\* Consumer 1 moved from cam_01 to cam_03 while consumer 2 listens to all.
C36_Witness ==
    /\ consumerOp = [op |-> "camera", k |-> 1, from |-> "cam_01"]
    /\ consumers[1].cameraId = "cam_03"
    /\ consumers[2].mounted /\ consumers[2].cameraId = JsUndefined
    /\ ~MapHas(subscribers, "cam_01")
    /\ RegistrySize(DOMAIN subscribers) = 2

----------------------------------------------------------------------------
(* Properties of the event log (checked under PageSpec)                     *)

\* C37: the log holds at most 50 events, none of them a system event, in
\* the order they arrived; when the effect of the page sees a camera event
\* while the log holds 50, the oldest is dropped and the new one is appended.
C37_LogWindow ==
    /\ Len(events) <= EventLogSize
    /\ \A i \in DOMAIN events : events[i].eventType # "system"
    /\ \A i, j \in DOMAIN events : i < j => events[i].id < events[j].id

C37_Slides ==
    (/\ pageOp' = "render"
     /\ pageLastEvent.eventType \notin {"system", "null"}
     /\ Len(events) = EventLogSize)
        => events' = Append(Tail(events), pageLastEvent)

C37_SlidingWindow == [](C37_LogWindow) /\ [][C37_Slides]_vars

\* The 51st camera event pushed the first one out of a full log.
C37_Witness ==
    /\ pageOp = "render"
    /\ Len(events) = EventLogSize
    /\ events[1].id = 2
    /\ events[EventLogSize].id = EventLogSize + 1

\* C38 (refuted): once the page has rendered, every camera event published
\* that the window still reaches is in the log exactly once.
C38_NoEventLost ==
    ~pageDirty =>
        \A n \in 1..camSeq :
            n > camSeq - EventLogSize =>
                Cardinality({ i \in DOMAIN events : events[i].id = n }) = 1

----------------------------------------------------------------------------
(* Properties of the health dashboard (checked under HealthSpec)            *)

GaugeOf(m) ==
    IF m = "cpu_usage" THEN "cpu" ELSE IF m = "memory_usage" THEN "memory" ELSE "kafkaLag"

\* C39: when the effect sees a system event of metric type m it sets the
\* gauge of m to the value and status of the event and leaves the two other
\* gauges alone; a camera event leaves all three alone.  Each gauge shows the
\* last system event of its type the effect has seen, or 0 / healthy.
C39_Frame ==
    healthOp' = "render" =>
        IF healthLastEvent.eventType = "system"
        THEN LET g == GaugeOf(healthLastEvent.metricType)
             IN  /\ metrics'[g] = [value |-> healthLastEvent.value,
                                   status |-> healthLastEvent.status]
                 /\ \A o \in DOMAIN metrics \ {g} : metrics'[o] = metrics[o]
        ELSE metrics' = metrics

C39_ShowsLastSeen ==
    \A m \in MetricTypes :
        metrics[GaugeOf(m)] = IF seen[m] = NoLastEvent
                              THEN InitialGauge
                              ELSE [value |-> seen[m].value, status |-> seen[m].status]

C39_OnlyOwnGauge == [](C39_ShowsLastSeen) /\ [][C39_Frame]_vars

\* A memory event was applied after a cpu event: both gauges show theirs.
C39_Witness ==
    /\ healthOp = "render"
    /\ healthLastEvent.eventType = "system"
    /\ healthLastEvent.metricType = "memory_usage"
    /\ metrics.cpu = [value |-> 95, status |-> "critical"]
    /\ metrics.memory = [value |-> 40, status |-> "healthy"]
    /\ metrics.kafkaLag = InitialGauge

====
